---- MODULE Spec2Model ----
(***************************************************************************)
(* HPACK decoder (src/hpack/decoder.rs): the block decoder, the prefix     *)
(* integer and string primitives, the merged static/dynamic index space    *)
(* and the size-bounded dynamic table, as a state machine over one         *)
(* Decoder value.  Byte strings are sequences of numbers in 0..255; the    *)
(* cursor position pos is the number of bytes already consumed.            *)
(***************************************************************************)
EXTENDS Integers, Sequences, FiniteSets, TLC

VARIABLES
    table,            \* Decoder.table: [entries, size, max_size], entries newest first
    max_size_update,  \* Decoder.max_size_update: None or Some(v)
    pc,               \* "idle" (between calls), "decode" (in decode's loop),
                      \* "returned" (decode has its return value), "panic"
    src,              \* decode's argument: the block
    pos,              \* decode's local buf: the cursor position
    can_resize,       \* decode's local flag
    emitted,          \* the entries decode has passed to the sink f, in order
    result,           \* decode's return value: "Ok" or the DecoderError
    at_call,          \* history: the decoder fields when decode was called
    reps,             \* history: the representations decode has dispatched on
    last,             \* history: the last step and the state it started from
    queued            \* history: arguments of queue_size_update since the last
                      \* accepted size update

vars == <<table, max_size_update, pc, src, pos, can_resize, emitted, result,
          at_call, reps, last, queued>>

-----------------------------------------------------------------------------
(* Option<usize> *)
None == <<>>
Some(v) == <<v>>
IsSome(o) == o # <<>>
Unwrap(o) == o[1]

(* Result values of the primitives *)
Ok(v, p) == [tag |-> "Ok", val |-> v, pos |-> p]
Err(e) == [tag |-> "Err", err |-> e]
Panic == [tag |-> "Panic"]
\* a panic with the cursor at p: what the call had consumed when it aborted
PanicAt(p) == [tag |-> Panic.tag, pos |-> p]

Min(a, b) == IF a <= b THEN a ELSE b

\* `let x = v; body`: body applied to the value v, evaluated once
Let(v, body(_)) == CHOOSE r \in {body(x) : x \in {v}} : TRUE

\* bit i of the byte a, and the bitwise AND of two bytes
Bit(a, i) == (a \div (2 ^ i)) % 2
BitAnd(a, b) ==
    Bit(a, 0) * Bit(b, 0) + 2 * Bit(a, 1) * Bit(b, 1)
    + 4 * Bit(a, 2) * Bit(b, 2) + 8 * Bit(a, 3) * Bit(b, 3)
    + 16 * Bit(a, 4) * Bit(b, 4) + 32 * Bit(a, 5) * Bit(b, 5)
    + 64 * Bit(a, 6) * Bit(b, 6) + 128 * Bit(a, 7) * Bit(b, 7)

Pow2(n) == 2 ^ n

-----------------------------------------------------------------------------
(* Representation::load *)
INDEXED == 128
LITERAL_WITH_INDEXING == 64
LITERAL_WITHOUT_INDEXING == 240
LITERAL_NEVER_INDEXED == 16
SIZE_UPDATE_MASK == 224
SIZE_UPDATE == 32

\* Representation::load as it must not be written: the SizeUpdate test is missing
Representation_load_no_size_update(byte) ==
    IF BitAnd(byte, INDEXED) = INDEXED THEN "Indexed"
    ELSE IF BitAnd(byte, LITERAL_WITH_INDEXING) = LITERAL_WITH_INDEXING
         THEN "LiteralWithIndexing"
    ELSE IF BitAnd(byte, LITERAL_WITHOUT_INDEXING) = 0
         THEN "LiteralWithoutIndexing"
    ELSE IF BitAnd(byte, LITERAL_WITHOUT_INDEXING) = LITERAL_NEVER_INDEXED
         THEN "LiteralNeverIndexed"
    ELSE "InvalidRepresentation"

\* Representation::load as it must not be written: the literal test comes first
Representation_load_literal_first(byte) ==
    IF BitAnd(byte, LITERAL_WITH_INDEXING) = LITERAL_WITH_INDEXING
    THEN "LiteralWithIndexing"
    ELSE IF BitAnd(byte, INDEXED) = INDEXED THEN "Indexed"
    ELSE IF BitAnd(byte, LITERAL_WITHOUT_INDEXING) = 0
         THEN "LiteralWithoutIndexing"
    ELSE IF BitAnd(byte, LITERAL_WITHOUT_INDEXING) = LITERAL_NEVER_INDEXED
         THEN "LiteralNeverIndexed"
    ELSE IF BitAnd(byte, SIZE_UPDATE_MASK) = SIZE_UPDATE THEN "SizeUpdate"
    ELSE "InvalidRepresentation"

Representation_load(byte) ==
    IF BitAnd(byte, INDEXED) = INDEXED THEN "Indexed"
    ELSE IF BitAnd(byte, LITERAL_WITH_INDEXING) = LITERAL_WITH_INDEXING
         THEN "LiteralWithIndexing"
    ELSE IF BitAnd(byte, LITERAL_WITHOUT_INDEXING) = 0
         THEN "LiteralWithoutIndexing"
    ELSE IF BitAnd(byte, LITERAL_WITHOUT_INDEXING) = LITERAL_NEVER_INDEXED
         THEN "LiteralNeverIndexed"
    ELSE IF BitAnd(byte, SIZE_UPDATE_MASK) = SIZE_UPDATE THEN "SizeUpdate"
    ELSE "InvalidRepresentation"

-----------------------------------------------------------------------------
(* decode_int *)
MAX_BYTES == 5
VARINT_MASK == 127
VARINT_FLAG == 128

\* decode_int's loop as it must not be written: shift stays where it started
RECURSIVE decode_int_loop_unshifted(_, _, _, _, _)
decode_int_loop_unshifted(s, p, ret, bytes, shift) ==
    IF p >= Len(s) THEN Err("IntegerUnderflow")
    ELSE Let(s[p + 1], LAMBDA b :
         Let(ret + BitAnd(b, VARINT_MASK) * Pow2(shift), LAMBDA ret2 :
             IF BitAnd(b, VARINT_FLAG) = 0 THEN Ok(ret2, p + 1)
             ELSE IF bytes + 1 = MAX_BYTES THEN Err("IntegerOverflow")
             ELSE decode_int_loop_unshifted(s, p + 1, ret2, bytes + 1, shift)))

\* the `while buf.has_remaining()` loop: ret, bytes and shift are its locals
RECURSIVE decode_int_loop(_, _, _, _, _)
decode_int_loop(s, p, ret, bytes, shift) ==
    IF p >= Len(s) THEN Err("IntegerUnderflow")
    ELSE Let(s[p + 1], LAMBDA b :
         Let(ret + BitAnd(b, VARINT_MASK) * Pow2(shift), LAMBDA ret2 :
             IF BitAnd(b, VARINT_FLAG) = 0 THEN Ok(ret2, p + 1)
             ELSE IF bytes + 1 = MAX_BYTES THEN Err("IntegerOverflow")
             ELSE decode_int_loop(s, p + 1, ret2, bytes + 1, shift + 7)))

\* decode_int as it must not be written: the prefix byte is not counted
decode_int_prefix_uncounted(s, p, prefix_size) ==
    IF prefix_size < 1 \/ prefix_size > 8 THEN Err("InvalidIntegerPrefix")
    ELSE IF p >= Len(s) THEN Err("IntegerUnderflow")
    ELSE Let(IF prefix_size = 8 THEN 255 ELSE (Pow2(prefix_size) - 1) % 256,
         LAMBDA mask :
         Let(BitAnd(s[p + 1], mask), LAMBDA ret :
             IF ret < mask THEN Ok(ret, p + 1)
             ELSE decode_int_loop(s, p + 1, ret, 0, 0)))

decode_int(s, p, prefix_size) ==
    IF prefix_size < 1 \/ prefix_size > 8 THEN Err("InvalidIntegerPrefix")
    ELSE IF p >= Len(s) THEN Err("IntegerUnderflow")
    ELSE Let(IF prefix_size = 8 THEN 255 ELSE (Pow2(prefix_size) - 1) % 256,
         LAMBDA mask :
         Let(BitAnd(s[p + 1], mask), LAMBDA ret :
             IF ret < mask THEN Ok(ret, p + 1)
             ELSE decode_int_loop(s, p + 1, ret, 1, 0)))

-----------------------------------------------------------------------------
(* decode_string.  huffman::decode is an external pure oracle: h is its     *)
(* answer for the raw bytes at hand, None for InvalidHuffmanCode.           *)
HUFF_FLAG == 128

huffman_decode(raw, h) ==
    IF IsSome(h) THEN [tag |-> "Ok", val |-> Unwrap(h)]
    ELSE Err("InvalidHuffmanCode")

\* take(buf, n): the n bytes at the cursor
take(s, p, n) == SubSeq(s, p + 1, p + n)

decode_string(s, p, h) ==
    IF p >= Len(s) THEN PanicAt(p)   \* peek_u8: buf.bytes()[0] on an empty slice
    ELSE Let(BitAnd(s[p + 1], HUFF_FLAG) = HUFF_FLAG, LAMBDA huff :
         Let(decode_int(s, p, 7), LAMBDA len :
             IF len.tag # "Ok" THEN len
             ELSE IF len.val > Len(s) - len.pos THEN Err("StringUnderflow")
             ELSE IF huff
                  THEN Let(huffman_decode(take(s, len.pos, len.val), h),
                       LAMBDA ret :
                           IF ret.tag = "Ok" THEN Ok(ret.val, len.pos + len.val)
                           ELSE ret)
             ELSE Ok(take(s, len.pos, len.val), len.pos + len.val)))

-----------------------------------------------------------------------------
(* Entry (super::Entry): a tagged variant carrying its name and value bytes *)
Entry_len(e) == Len(e.name) + Len(e.value) + 32

HeaderNameBytes == (97 .. 122) \cup (48 .. 57) \cup {45}

Entry_new(name, value) ==
    IF name # <<>> /\ \A i \in 1 .. Len(name) : name[i] \in HeaderNameBytes
    THEN [tag |-> "Ok", val |-> [tag |-> "Header", name |-> name, value |-> value]]
    ELSE Err("InvalidUtf8")

\* e.key().into_entry(value): the variant and the name follow e
Key_into_entry(e, value) ==
    [tag |-> "Ok", val |-> [tag |-> e.tag, name |-> e.name, value |-> value]]

StaticTable ==
  <<
    (*  1 :authority: "" *)
    [tag |-> "Authority", name |-> <<58, 97, 117, 116, 104, 111, 114, 105, 116, 121>>, value |-> <<>>],
    (*  2 :method: "GET" *)
    [tag |-> "Method", name |-> <<58, 109, 101, 116, 104, 111, 100>>, value |-> <<71, 69, 84>>],
    (*  3 :method: "POST" *)
    [tag |-> "Method", name |-> <<58, 109, 101, 116, 104, 111, 100>>, value |-> <<80, 79, 83, 84>>],
    (*  4 :path: "/" *)
    [tag |-> "Path", name |-> <<58, 112, 97, 116, 104>>, value |-> <<47>>],
    (*  5 :path: "/index.html" *)
    [tag |-> "Path", name |-> <<58, 112, 97, 116, 104>>, value |-> <<47, 105, 110, 100, 101, 120, 46, 104, 116, 109, 108>>],
    (*  6 :scheme: "http" *)
    [tag |-> "Scheme", name |-> <<58, 115, 99, 104, 101, 109, 101>>, value |-> <<104, 116, 116, 112>>],
    (*  7 :scheme: "https" *)
    [tag |-> "Scheme", name |-> <<58, 115, 99, 104, 101, 109, 101>>, value |-> <<104, 116, 116, 112, 115>>],
    (*  8 :status: "200" *)
    [tag |-> "Status", name |-> <<58, 115, 116, 97, 116, 117, 115>>, value |-> <<50, 48, 48>>],
    (*  9 :status: "204" *)
    [tag |-> "Status", name |-> <<58, 115, 116, 97, 116, 117, 115>>, value |-> <<50, 48, 52>>],
    (* 10 :status: "206" *)
    [tag |-> "Status", name |-> <<58, 115, 116, 97, 116, 117, 115>>, value |-> <<50, 48, 54>>],
    (* 11 :status: "304" *)
    [tag |-> "Status", name |-> <<58, 115, 116, 97, 116, 117, 115>>, value |-> <<51, 48, 52>>],
    (* 12 :status: "400" *)
    [tag |-> "Status", name |-> <<58, 115, 116, 97, 116, 117, 115>>, value |-> <<52, 48, 48>>],
    (* 13 :status: "404" *)
    [tag |-> "Status", name |-> <<58, 115, 116, 97, 116, 117, 115>>, value |-> <<52, 48, 52>>],
    (* 14 :status: "500" *)
    [tag |-> "Status", name |-> <<58, 115, 116, 97, 116, 117, 115>>, value |-> <<53, 48, 48>>],
    (* 15 accept-charset: "" *)
    [tag |-> "Header", name |-> <<97, 99, 99, 101, 112, 116, 45, 99, 104, 97, 114, 115, 101, 116>>, value |-> <<>>],
    (* 16 accept-encoding: "gzip, deflate" *)
    [tag |-> "Header", name |-> <<97, 99, 99, 101, 112, 116, 45, 101, 110, 99, 111, 100, 105, 110, 103>>, value |-> <<103, 122, 105, 112, 44, 32, 100, 101, 102, 108, 97, 116, 101>>],
    (* 17 accept-language: "" *)
    [tag |-> "Header", name |-> <<97, 99, 99, 101, 112, 116, 45, 108, 97, 110, 103, 117, 97, 103, 101>>, value |-> <<>>],
    (* 18 accept-ranges: "" *)
    [tag |-> "Header", name |-> <<97, 99, 99, 101, 112, 116, 45, 114, 97, 110, 103, 101, 115>>, value |-> <<>>],
    (* 19 accept: "" *)
    [tag |-> "Header", name |-> <<97, 99, 99, 101, 112, 116>>, value |-> <<>>],
    (* 20 access-control-allow-origin: "" *)
    [tag |-> "Header", name |-> <<97, 99, 99, 101, 115, 115, 45, 99, 111, 110, 116, 114, 111, 108, 45, 97, 108, 108, 111, 119, 45, 111, 114, 105, 103, 105, 110>>, value |-> <<>>],
    (* 21 age: "" *)
    [tag |-> "Header", name |-> <<97, 103, 101>>, value |-> <<>>],
    (* 22 allow: "" *)
    [tag |-> "Header", name |-> <<97, 108, 108, 111, 119>>, value |-> <<>>],
    (* 23 authorization: "" *)
    [tag |-> "Header", name |-> <<97, 117, 116, 104, 111, 114, 105, 122, 97, 116, 105, 111, 110>>, value |-> <<>>],
    (* 24 cache-control: "" *)
    [tag |-> "Header", name |-> <<99, 97, 99, 104, 101, 45, 99, 111, 110, 116, 114, 111, 108>>, value |-> <<>>],
    (* 25 content-disposition: "" *)
    [tag |-> "Header", name |-> <<99, 111, 110, 116, 101, 110, 116, 45, 100, 105, 115, 112, 111, 115, 105, 116, 105, 111, 110>>, value |-> <<>>],
    (* 26 content-encoding: "" *)
    [tag |-> "Header", name |-> <<99, 111, 110, 116, 101, 110, 116, 45, 101, 110, 99, 111, 100, 105, 110, 103>>, value |-> <<>>],
    (* 27 content-language: "" *)
    [tag |-> "Header", name |-> <<99, 111, 110, 116, 101, 110, 116, 45, 108, 97, 110, 103, 117, 97, 103, 101>>, value |-> <<>>],
    (* 28 content-length: "" *)
    [tag |-> "Header", name |-> <<99, 111, 110, 116, 101, 110, 116, 45, 108, 101, 110, 103, 116, 104>>, value |-> <<>>],
    (* 29 content-location: "" *)
    [tag |-> "Header", name |-> <<99, 111, 110, 116, 101, 110, 116, 45, 108, 111, 99, 97, 116, 105, 111, 110>>, value |-> <<>>],
    (* 30 content-range: "" *)
    [tag |-> "Header", name |-> <<99, 111, 110, 116, 101, 110, 116, 45, 114, 97, 110, 103, 101>>, value |-> <<>>],
    (* 31 content-type: "" *)
    [tag |-> "Header", name |-> <<99, 111, 110, 116, 101, 110, 116, 45, 116, 121, 112, 101>>, value |-> <<>>],
    (* 32 cookie: "" *)
    [tag |-> "Header", name |-> <<99, 111, 111, 107, 105, 101>>, value |-> <<>>],
    (* 33 date: "" *)
    [tag |-> "Header", name |-> <<100, 97, 116, 101>>, value |-> <<>>],
    (* 34 etag: "" *)
    [tag |-> "Header", name |-> <<101, 116, 97, 103>>, value |-> <<>>],
    (* 35 expect: "" *)
    [tag |-> "Header", name |-> <<101, 120, 112, 101, 99, 116>>, value |-> <<>>],
    (* 36 expires: "" *)
    [tag |-> "Header", name |-> <<101, 120, 112, 105, 114, 101, 115>>, value |-> <<>>],
    (* 37 from: "" *)
    [tag |-> "Header", name |-> <<102, 114, 111, 109>>, value |-> <<>>],
    (* 38 host: "" *)
    [tag |-> "Header", name |-> <<104, 111, 115, 116>>, value |-> <<>>],
    (* 39 if-match: "" *)
    [tag |-> "Header", name |-> <<105, 102, 45, 109, 97, 116, 99, 104>>, value |-> <<>>],
    (* 40 if-modified-since: "" *)
    [tag |-> "Header", name |-> <<105, 102, 45, 109, 111, 100, 105, 102, 105, 101, 100, 45, 115, 105, 110, 99, 101>>, value |-> <<>>],
    (* 41 if-none-match: "" *)
    [tag |-> "Header", name |-> <<105, 102, 45, 110, 111, 110, 101, 45, 109, 97, 116, 99, 104>>, value |-> <<>>],
    (* 42 if-range: "" *)
    [tag |-> "Header", name |-> <<105, 102, 45, 114, 97, 110, 103, 101>>, value |-> <<>>],
    (* 43 if-unmodified-since: "" *)
    [tag |-> "Header", name |-> <<105, 102, 45, 117, 110, 109, 111, 100, 105, 102, 105, 101, 100, 45, 115, 105, 110, 99, 101>>, value |-> <<>>],
    (* 44 last-modified: "" *)
    [tag |-> "Header", name |-> <<108, 97, 115, 116, 45, 109, 111, 100, 105, 102, 105, 101, 100>>, value |-> <<>>],
    (* 45 link: "" *)
    [tag |-> "Header", name |-> <<108, 105, 110, 107>>, value |-> <<>>],
    (* 46 location: "" *)
    [tag |-> "Header", name |-> <<108, 111, 99, 97, 116, 105, 111, 110>>, value |-> <<>>],
    (* 47 max-forwards: "" *)
    [tag |-> "Header", name |-> <<109, 97, 120, 45, 102, 111, 114, 119, 97, 114, 100, 115>>, value |-> <<>>],
    (* 48 proxy-authenticate: "" *)
    [tag |-> "Header", name |-> <<112, 114, 111, 120, 121, 45, 97, 117, 116, 104, 101, 110, 116, 105, 99, 97, 116, 101>>, value |-> <<>>],
    (* 49 proxy-authorization: "" *)
    [tag |-> "Header", name |-> <<112, 114, 111, 120, 121, 45, 97, 117, 116, 104, 111, 114, 105, 122, 97, 116, 105, 111, 110>>, value |-> <<>>],
    (* 50 range: "" *)
    [tag |-> "Header", name |-> <<114, 97, 110, 103, 101>>, value |-> <<>>],
    (* 51 referer: "" *)
    [tag |-> "Header", name |-> <<114, 101, 102, 101, 114, 101, 114>>, value |-> <<>>],
    (* 52 refresh: "" *)
    [tag |-> "Header", name |-> <<114, 101, 102, 114, 101, 115, 104>>, value |-> <<>>],
    (* 53 retry-after: "" *)
    [tag |-> "Header", name |-> <<114, 101, 116, 114, 121, 45, 97, 102, 116, 101, 114>>, value |-> <<>>],
    (* 54 server: "" *)
    [tag |-> "Header", name |-> <<115, 101, 114, 118, 101, 114>>, value |-> <<>>],
    (* 55 set-cookie: "" *)
    [tag |-> "Header", name |-> <<115, 101, 116, 45, 99, 111, 111, 107, 105, 101>>, value |-> <<>>],
    (* 56 strict-transport-security: "" *)
    [tag |-> "Header", name |-> <<115, 116, 114, 105, 99, 116, 45, 116, 114, 97, 110, 115, 112, 111, 114, 116, 45, 115, 101, 99, 117, 114, 105, 116, 121>>, value |-> <<>>],
    (* 57 transfer-encoding: "" *)
    [tag |-> "Header", name |-> <<116, 114, 97, 110, 115, 102, 101, 114, 45, 101, 110, 99, 111, 100, 105, 110, 103>>, value |-> <<>>],
    (* 58 user-agent: "" *)
    [tag |-> "Header", name |-> <<117, 115, 101, 114, 45, 97, 103, 101, 110, 116>>, value |-> <<>>],
    (* 59 vary: "" *)
    [tag |-> "Header", name |-> <<118, 97, 114, 121>>, value |-> <<>>],
    (* 60 via: "" *)
    [tag |-> "Header", name |-> <<118, 105, 97>>, value |-> <<>>],
    (* 61 www-authenticate: "" *)
    [tag |-> "Header", name |-> <<119, 119, 119, 45, 97, 117, 116, 104, 101, 110, 116, 105, 99, 97, 116, 101>>, value |-> <<>>]
  >>

get_static(idx) == StaticTable[idx]

-----------------------------------------------------------------------------
(* Table *)
Table_new(m) == [entries |-> <<>>, size |-> 0, max_size |-> m]

Front(q) == SubSeq(q, 1, Len(q) - 1)     \* q after pop_back
Back(q) == q[Len(q)]

\* Table_get as it must not be written: the dynamic offset taken from 61 instead of 62
Table_get_shifted(t, index) ==
    IF index = 0 THEN Err("InvalidTableIndex")
    ELSE IF index <= 61 THEN [tag |-> "Ok", val |-> get_static(index)]
    ELSE IF index - 61 < Len(t.entries)
         THEN [tag |-> "Ok", val |-> t.entries[(index - 61) + 1]]
         ELSE Err("InvalidTableIndex")

Table_get(t, index) ==
    IF index = 0 THEN Err("InvalidTableIndex")
    ELSE IF index <= 61 THEN [tag |-> "Ok", val |-> get_static(index)]
    ELSE IF index - 62 < Len(t.entries)
         THEN [tag |-> "Ok", val |-> t.entries[(index - 62) + 1]]
         ELSE Err("InvalidTableIndex")

\* reserve's loop as it must not be written: the newest entry goes first
RECURSIVE reserve_loop_front(_, _)
reserve_loop_front(t, sz) ==
    IF t.size + sz > t.max_size
    THEN IF t.entries = <<>> THEN [tag |-> "Panic", table |-> t]
         ELSE reserve_loop_front([t EXCEPT !.entries = Tail(@),
                                           !.size = @ - Entry_len(Head(t.entries))], sz)
    ELSE [tag |-> "Ok", table |-> t]

\* the loop of reserve: pop_back().expect(..) panics on an empty deque
RECURSIVE reserve_loop(_, _)
reserve_loop(t, sz) ==
    IF t.size + sz > t.max_size
    THEN IF t.entries = <<>> THEN [tag |-> "Panic", table |-> t]
         ELSE reserve_loop([t EXCEPT !.entries = Front(@),
                                     !.size = @ - Entry_len(Back(t.entries))], sz)
    ELSE [tag |-> "Ok", table |-> t]

\* Table_reserve as it must not be written: every entry goes when one has to
Table_reserve_all(t, sz, dbg) ==
    IF dbg /\ ~(sz <= t.max_size) THEN [tag |-> "Panic", table |-> t]
    ELSE IF t.size + sz > t.max_size
         THEN reserve_loop([t EXCEPT !.entries = <<>>, !.size = 0], sz)
         ELSE [tag |-> "Ok", table |-> t]

Table_reserve(t, sz, dbg) ==
    IF dbg /\ ~(sz <= t.max_size) THEN [tag |-> "Panic", table |-> t]
    ELSE reserve_loop(t, sz)

\* Table_insert as it must not be written: the entry is stored without making room for it
Table_insert_unreserved(t, entry, dbg) ==
    [tag |-> "Ok",
     table |-> [t EXCEPT !.size = @ + Entry_len(entry),
                         !.entries = <<entry>> \o @]]

\* Table_insert as it must not be written: the entry goes behind the oldest one
Table_insert_at_back(t, entry, dbg) ==
    Let(Entry_len(entry), LAMBDA len :
    Let(Table_reserve(t, len, dbg), LAMBDA r :
        IF r.tag = "Panic" THEN r
        ELSE [tag |-> "Ok",
              table |-> [r.table EXCEPT !.size = @ + len,
                                        !.entries = Append(@, entry)]]))

Table_insert(t, entry, dbg) ==
    Let(Entry_len(entry), LAMBDA len :
    Let(Table_reserve(t, len, dbg), LAMBDA r :
        IF r.tag = "Panic" THEN r
        ELSE [tag |-> "Ok",
              table |-> [r.table EXCEPT !.size = @ + len,
                                        !.entries = <<entry>> \o @]]))

RECURSIVE Table_consolidate(_)
Table_consolidate(t) ==
    IF t.size > t.max_size
    THEN IF t.entries = <<>> THEN [tag |-> "Panic", table |-> t]
         ELSE Table_consolidate([t EXCEPT !.size = @ - Entry_len(Back(t.entries)),
                                          !.entries = Front(@)])
    ELSE [tag |-> "Ok", table |-> t]

\* Table_set_max_size as it must not be written: the new maximum is stored, nothing evicted
Table_set_max_size_unconsolidated(t, sz) ==
    [tag |-> "Ok", table |-> [t EXCEPT !.max_size = sz]]

Table_set_max_size(t, sz) == Table_consolidate([t EXCEPT !.max_size = sz])

-----------------------------------------------------------------------------
(* Decoder *)
queue_size_update(msu, size) ==
    LET sz == IF IsSome(msu) THEN Min(Unwrap(msu), size) ELSE size
    IN  Some(sz)

decode_indexed(t, s, p) ==
    Let(decode_int(s, p, 7), LAMBDA index :
        IF index.tag # "Ok" THEN index
        ELSE Let(Table_get(t, index.val), LAMBDA e :
                 IF e.tag = "Ok" THEN Ok(e.val, index.pos) ELSE e))

\* decode_literal as it must not be written: a literal name and its value change places
decode_literal_swapped(t, s, p, index, hn, hv) ==
    Let(IF index THEN 6 ELSE 4, LAMBDA prefix :
    Let(decode_int(s, p, prefix), LAMBDA table_idx :
        IF table_idx.tag # "Ok" THEN table_idx
        ELSE IF table_idx.val = 0
        THEN Let(decode_string(s, table_idx.pos, hn), LAMBDA name :
                 IF name.tag # "Ok" THEN name
                 ELSE Let(decode_string(s, name.pos, hv), LAMBDA value :
                      IF value.tag # "Ok" THEN value
                      ELSE Let(Entry_new(value.val, name.val), LAMBDA e :
                           IF e.tag = "Ok" THEN Ok(e.val, value.pos) ELSE e)))
        ELSE Let(Table_get(t, table_idx.val), LAMBDA e :
                 IF e.tag # "Ok" THEN e
                 ELSE Let(decode_string(s, table_idx.pos, hv), LAMBDA value :
                      IF value.tag # "Ok" THEN value
                      ELSE Let(Key_into_entry(e.val, value.val), LAMBDA ne :
                           IF ne.tag = "Ok" THEN Ok(ne.val, value.pos)
                           ELSE ne)))))

\* hn, hv: the Huffman oracle's answers for the name and the value string
decode_literal(t, s, p, index, hn, hv) ==
    Let(IF index THEN 6 ELSE 4, LAMBDA prefix :
    Let(decode_int(s, p, prefix), LAMBDA table_idx :
        IF table_idx.tag # "Ok" THEN table_idx
        ELSE IF table_idx.val = 0
        THEN Let(decode_string(s, table_idx.pos, hn), LAMBDA name :
                 IF name.tag # "Ok" THEN name
                 ELSE Let(decode_string(s, name.pos, hv), LAMBDA value :
                      IF value.tag # "Ok" THEN value
                      ELSE Let(Entry_new(name.val, value.val), LAMBDA e :
                           IF e.tag = "Ok" THEN Ok(e.val, value.pos) ELSE e)))
        ELSE Let(Table_get(t, table_idx.val), LAMBDA e :
                 IF e.tag # "Ok" THEN e
                 ELSE Let(decode_string(s, table_idx.pos, hv), LAMBDA value :
                      IF value.tag # "Ok" THEN value
                      ELSE Let(Key_into_entry(e.val, value.val), LAMBDA ne :
                           IF ne.tag = "Ok" THEN Ok(ne.val, value.pos)
                           ELSE ne)))))

\* process_size_update as it must not be written: the new size is not compared with max
process_size_update_unchecked(t, s, p, max) ==
    Let(decode_int(s, p, 5), LAMBDA new_size :
        IF new_size.tag # "Ok" THEN new_size
        ELSE Let(Table_set_max_size(t, new_size.val), LAMBDA r :
                 IF r.tag = "Panic" THEN PanicAt(new_size.pos)
                 ELSE [tag |-> "Ok", table |-> r.table, pos |-> new_size.pos]))

\* the result of process_size_update: the table and the cursor after it
process_size_update(t, s, p, max) ==
    Let(decode_int(s, p, 5), LAMBDA new_size :
        IF new_size.tag # "Ok" THEN new_size
        ELSE IF new_size.val > max THEN Err("InvalidMaxDynamicSize")
        ELSE Let(Table_set_max_size(t, new_size.val), LAMBDA r :
                 IF r.tag = "Panic" THEN PanicAt(new_size.pos)
                 ELSE [tag |-> "Ok", table |-> r.table, pos |-> new_size.pos]))

(* One iteration of decode's `while buf.has_remaining()` loop, started with  *)
(* the cursor at p < Len(s).  The outcome names how the iteration ended      *)
(* ("Ok": the loop goes on; "Err": decode returns Err(err); "Panic"), the    *)
(* decoder fields, the cursor, can_resize, the entries passed to f (emit)    *)
(* and the entry the representation decoded to (entry), each a sequence of   *)
(* at most one entry.                                                        *)
Outcome(tg, e, t, msu, p, cr, em, en) ==
    [tag |-> tg, err |-> e, table |-> t, max_size_update |-> msu,
     pos |-> p, can_resize |-> cr, emit |-> em, entry |-> en]

\* an error drops the cursor with decode's frame; a panic leaves it where the
\* failing call stood
Failed(r, t, msu, p, cr) ==
    Outcome(r.tag, IF r.tag = "Err" THEN r.err ELSE "", t, msu,
            IF r.tag = "Panic" THEN r.pos ELSE p, cr, <<>>, <<>>)

arm_Indexed(t, msu, s, p) ==
    Let(decode_indexed(t, s, p), LAMBDA e :
        IF e.tag # "Ok" THEN Failed(e, t, msu, p, FALSE)
        ELSE Outcome("Ok", "", t, msu, e.pos, FALSE, <<e.val>>, <<e.val>>))

\* a panic of table.insert leaves decode before f(entry)
arm_LiteralWithIndexing(t, msu, dbg, s, p, hn, hv) ==
    Let(decode_literal(t, s, p, TRUE, hn, hv), LAMBDA entry :
        IF entry.tag # "Ok" THEN Failed(entry, t, msu, p, FALSE)
        ELSE Let(Table_insert(t, entry.val, dbg), LAMBDA ins :
                 IF ins.tag = "Panic"
                 THEN Outcome("Panic", "", ins.table, msu, entry.pos, FALSE,
                              <<>>, <<entry.val>>)
                 ELSE Outcome("Ok", "", ins.table, msu, entry.pos, FALSE,
                              <<entry.val>>, <<entry.val>>)))

\* arm_LiteralNotIndexed as it must not be written: the entry goes into the table
arm_LiteralNotIndexed_inserting(t, msu, s, p, hn, hv) ==
    arm_LiteralWithIndexing(t, msu, FALSE, s, p, hn, hv)

\* arm_LiteralNotIndexed as it must not be written: f is not called
arm_LiteralNotIndexed_silent(t, msu, s, p, hn, hv) ==
    Let(decode_literal(t, s, p, FALSE, hn, hv), LAMBDA entry :
        IF entry.tag # "Ok" THEN Failed(entry, t, msu, p, FALSE)
        ELSE Outcome("Ok", "", t, msu, entry.pos, FALSE, <<>>, <<entry.val>>))

arm_LiteralNotIndexed(t, msu, s, p, hn, hv) ==
    Let(decode_literal(t, s, p, FALSE, hn, hv), LAMBDA entry :
        IF entry.tag # "Ok" THEN Failed(entry, t, msu, p, FALSE)
        ELSE Outcome("Ok", "", t, msu, entry.pos, FALSE,
                     <<entry.val>>, <<entry.val>>))

\* arm_SizeUpdate as it must not be written: can_resize is not looked at
arm_SizeUpdate_anywhere(t, msu, s, p, cr) ==
    IF IsSome(msu)
    THEN Let(process_size_update(t, s, p, Unwrap(msu)), LAMBDA r :
             IF r.tag # "Ok" THEN Failed(r, t, None, p, cr)
             ELSE Outcome("Ok", "", r.table, None, r.pos, cr, <<>>, <<>>))
    ELSE Outcome("Err", "InvalidMaxDynamicSize", t, None, p, cr, <<>>, <<>>)

\* arm_SizeUpdate as it must not be written: the new maximum is read from a
\* copy of the cursor, which stays where it was
arm_SizeUpdate_in_place(t, msu, s, p, cr) ==
    IF IsSome(msu) /\ cr
    THEN Let(process_size_update(t, s, p, Unwrap(msu)), LAMBDA r :
             IF r.tag # "Ok" THEN Failed(r, t, None, p, cr)
             ELSE Outcome("Ok", "", r.table, None, p, cr, <<>>, <<>>))
    ELSE Outcome("Err", "InvalidMaxDynamicSize", t, None, p, cr, <<>>, <<>>)

\* self.max_size_update.take() leaves None behind, whichever arm matches
arm_SizeUpdate(t, msu, s, p, cr) ==
    IF IsSome(msu) /\ cr
    THEN Let(process_size_update(t, s, p, Unwrap(msu)), LAMBDA r :
             IF r.tag # "Ok" THEN Failed(r, t, None, p, cr)
             ELSE Outcome("Ok", "", r.table, None, r.pos, cr, <<>>, <<>>))
    ELSE Outcome("Err", "InvalidMaxDynamicSize", t, None, p, cr, <<>>, <<>>)

decode_iteration(t, msu, dbg, s, p, cr, hn, hv) ==
    Let(Representation_load(s[p + 1]), LAMBDA rep :
        CASE rep = "Indexed" -> arm_Indexed(t, msu, s, p)
          [] rep = "LiteralWithIndexing" ->
                 arm_LiteralWithIndexing(t, msu, dbg, s, p, hn, hv)
          [] rep = "LiteralWithoutIndexing" ->
                 arm_LiteralNotIndexed(t, msu, s, p, hn, hv)
          [] rep = "LiteralNeverIndexed" ->
                 arm_LiteralNotIndexed(t, msu, s, p, hn, hv)
          [] rep = "SizeUpdate" -> arm_SizeUpdate(t, msu, s, p, cr)
          [] OTHER -> Outcome("Err", "InvalidRepresentation", t, msu, p, cr,
                              <<>>, <<>>))

-----------------------------------------------------------------------------
(* Inputs.  A block is a concatenation of at most MaxReps encoded           *)
(* representations; the dynamic-table sizes are chosen around the sizes of  *)
(* the two entries the blocks can insert (34 and 42).                       *)
MaxReps == 2

Pieces ==
    { <<130>>,                   \* 82: Indexed, static index 2 (:method GET)
      <<190>>,                   \* be: Indexed, index 62 (newest dynamic entry)
      <<64, 1, 97, 1, 98>>,      \* 40 01 'a' 01 'b': LiteralWithIndexing a: b (34)
      <<65, 0>>,                 \* 41 00: LiteralWithIndexing :authority "" (42)
      <<4, 1, 47>>,              \* 04 01 '/': LiteralWithoutIndexing :path /
      <<16, 1, 97, 129, 255>>,   \* 10 01 'a' 81 ff: LiteralNeverIndexed, Huffman value
      <<32>>,                    \* 20: SizeUpdate 0
      <<63, 9>> }                \* 3f 09: SizeUpdate 40

RECURSIVE BlocksOf(_)
BlocksOf(n) ==
    IF n = 0 THEN {<<>>}
    ELSE LET shorter == BlocksOf(n - 1)
         IN  shorter \cup {b \o p : b \in shorter, p \in Pieces}

Blocks == BlocksOf(MaxReps)

InitSizes == {40, 80}            \* arguments of Decoder::new
QueueSizes == {0, 40}            \* arguments of queue_size_update
HuffAnswers == {None, Some(<<120>>)}

-----------------------------------------------------------------------------
(* The state machine *)
Fields == [table |-> table, max_size_update |-> max_size_update]
NoFields == [table |-> Table_new(0), max_size_update |-> None]

\* the step op, the state it started from, and for an iteration of decode
\* its representation and the entry it decoded
Snapshot(op, rep, arg, en) ==
    [op |-> op, rep |-> rep, arg |-> arg, entry |-> en, table |-> table,
     max_size_update |-> max_size_update, can_resize |-> can_resize, pos |-> pos,
     emitted |-> emitted]
NoStep ==
    [op |-> "none", rep |-> "", arg |-> 0, entry |-> <<>>,
     table |-> Table_new(0), max_size_update |-> None, can_resize |-> TRUE,
     pos |-> 0, emitted |-> <<>>]

\* Decoder::new(m)
Init ==
    /\ \E m \in InitSizes : table = Table_new(m)
    /\ max_size_update = None
    /\ pc = "idle"
    /\ src = <<>>
    /\ pos = 0
    /\ can_resize = TRUE
    /\ emitted = <<>>
    /\ result = "none"
    /\ at_call = NoFields
    /\ reps = <<>>
    /\ last = NoStep
    /\ queued = {}

QueueSizeUpdate ==
    \E m \in QueueSizes :
        /\ pc = "idle"
        /\ max_size_update' = queue_size_update(max_size_update, m)
        /\ queued' = queued \cup {m}
        /\ last' = Snapshot("queue_size_update", "", m, <<>>)
        /\ UNCHANGED <<table, pc, src, pos, can_resize, emitted, result, at_call,
                       reps>>

\* decode is called: buf = Cursor::new(src), can_resize = true
DecodeBegin ==
    \E b \in Blocks :
        /\ pc = "idle"
        /\ pc' = "decode"
        /\ src' = b
        /\ pos' = 0
        /\ can_resize' = TRUE
        /\ emitted' = <<>>
        /\ result' = "none"
        /\ at_call' = Fields
        /\ reps' = <<>>
        /\ last' = Snapshot("decode", "", 0, <<>>)
        /\ UNCHANGED <<table, max_size_update, queued>>

\* one iteration of the loop; the build (dbg) decides where an oversized
\* insert panics, the Huffman oracle (hn, hv) what a Huffman string decodes to
DecodeIteration ==
    /\ pc = "decode"
    /\ pos < Len(src)
    /\ \E o \in {decode_iteration(table, max_size_update, dbg,
                                  src, pos, can_resize, hn, hv) :
                     dbg \in BOOLEAN, hn \in HuffAnswers, hv \in HuffAnswers} :
        LET rep == Representation_load(src[pos + 1])
        IN  /\ table' = o.table
            /\ max_size_update' = o.max_size_update
            /\ pos' = o.pos
            /\ can_resize' = o.can_resize
            /\ emitted' = emitted \o o.emit
            /\ pc' = CASE o.tag = "Ok" -> "decode"
                       [] o.tag = "Err" -> "returned"
                       [] OTHER -> "panic"
            /\ result' = CASE o.tag = "Ok" -> "none"
                           [] o.tag = "Err" -> o.err
                           [] OTHER -> "panic"
            /\ queued' = IF rep = "SizeUpdate" /\ o.tag = "Ok" THEN {} ELSE queued
            /\ reps' = Append(reps, rep)
            /\ last' = Snapshot("iteration", rep, 0, o.entry)
    /\ UNCHANGED <<src, at_call>>

\* the loop ends with the input consumed: Ok(())
DecodeFinish ==
    /\ pc = "decode"
    /\ pos = Len(src)
    /\ pc' = "returned"
    /\ result' = "Ok"
    /\ UNCHANGED <<table, max_size_update, src, pos, can_resize, emitted,
                   at_call, reps, last, queued>>

\* decode's frame is gone: the caller has the result and the sink's entries
DecodeReturn ==
    /\ pc = "returned"
    /\ pc' = "idle"
    /\ src' = <<>>
    /\ pos' = 0
    /\ can_resize' = TRUE
    /\ emitted' = <<>>
    /\ result' = "none"
    /\ at_call' = NoFields
    /\ reps' = <<>>
    /\ last' = NoStep
    /\ UNCHANGED <<table, max_size_update, queued>>

Next ==
    \/ QueueSizeUpdate
    \/ DecodeBegin
    \/ DecodeIteration
    \/ DecodeFinish
    \/ DecodeReturn

Spec == Init /\ [][Next]_vars


-----------------------------------------------------------------------------
(* Blocks that end on a literal's edge: whole representations followed by   *)
(* one that is cut short, or by a literal whose name index points into the  *)
(* dynamic table or past the end of the merged index space.                 *)
Truncated ==
    { <<65>>,            \* 41: LiteralWithIndexing, name index 1, no value string
      <<4>>,             \* 04: LiteralWithoutIndexing, name index 4, no value string
      <<64>>,            \* 40: LiteralWithIndexing, name index 0, no name string
      <<64, 1, 97>>,     \* 40 01 'a': the name string, no value string
      <<255>>,           \* ff: Indexed, the index goes on in a missing byte
      <<127>>,           \* 7f: LiteralWithIndexing, the name index goes on
      <<64, 255>>,       \* 40 ff: the length of the name string goes on
      <<63>>,            \* 3f: SizeUpdate, the new maximum goes on
      <<64, 2, 97>>,     \* 40 02 'a': one byte of a name string of two
      <<65, 1>> }        \* 41 01: a value string of one byte, none there

NameIndexed ==
    { <<126, 1, 99>>,        \* 7e 01 'c': LiteralWithIndexing, name of index 62
      <<15, 47, 1, 99>>,     \* 0f 2f 01 'c': LiteralWithoutIndexing, name of index 62
      <<127, 10, 0>> }       \* 7f 0a 00: LiteralWithIndexing, name of index 73

\* at most one whole representation comes first
EdgeBlocks == {b \o e : b \in BlocksOf(1), e \in Truncated \cup NameIndexed}

DecodeBeginEdge ==
    \E b \in EdgeBlocks :
        /\ pc = "idle"
        /\ pc' = "decode"
        /\ src' = b
        /\ pos' = 0
        /\ can_resize' = TRUE
        /\ emitted' = <<>>
        /\ result' = "none"
        /\ at_call' = Fields
        /\ reps' = <<>>
        /\ last' = Snapshot("decode", "", 0, <<>>)
        /\ UNCHANGED <<table, max_size_update, queued>>

NextEdge ==
    \/ QueueSizeUpdate
    \/ DecodeBeginEdge
    \/ DecodeIteration
    \/ DecodeFinish
    \/ DecodeReturn

SpecEdge == Init /\ [][NextEdge]_vars

-----------------------------------------------------------------------------
(* The header blocks of RFC 7541 appendix C.3 (requests without Huffman     *)
(* coding) and C.5 (responses without Huffman coding, table of 256 bytes),  *)
(* decoded by one decoder in any order and any number of times.             *)
\* C.3.1: 82 86 84 41 0f www.example.com
RFC_C3_1 ==
    <<130, 134, 132, 65, 15, 119, 119, 119, 46, 101, 120, 97, 109, 112, 108,
      101, 46, 99, 111, 109>>

\* C.3.2: 82 86 84 be 58 08 no-cache
RFC_C3_2 ==
    <<130, 134, 132, 190, 88, 8, 110, 111, 45, 99, 97, 99, 104, 101>>

\* C.3.3: 82 87 85 bf 40 0a custom-key 0c custom-value
RFC_C3_3 ==
    <<130, 135, 133, 191, 64, 10, 99, 117, 115, 116, 111, 109, 45, 107, 101,
      121, 12, 99, 117, 115, 116, 111, 109, 45, 118, 97, 108, 117, 101>>

\* C.5.1: 48 03 302 58 07 private 61 1d <date ..:21> 6e 17 <location>
RFC_C5_1 ==
    <<72, 3, 51, 48, 50, 88, 7, 112, 114, 105, 118, 97, 116, 101, 97, 29,
      77, 111, 110, 44, 32, 50, 49, 32, 79, 99, 116, 32, 50, 48, 49, 51, 32,
      50, 48, 58, 49, 51, 58, 50, 49, 32, 71, 77, 84, 110, 23, 104, 116,
      116, 112, 115, 58, 47, 47, 119, 119, 119, 46, 101, 120, 97, 109, 112,
      108, 101, 46, 99, 111, 109>>

\* C.5.2: 48 03 307 c1 c0 bf
RFC_C5_2 ==
    <<72, 3, 51, 48, 55, 193, 192, 191>>

\* C.5.3: 88 c1 61 1d <date ..:22> c0 5a 04 gzip 77 38 <cookie>
RFC_C5_3 ==
    <<136, 193, 97, 29, 77, 111, 110, 44, 32, 50, 49, 32, 79, 99, 116, 32,
      50, 48, 49, 51, 32, 50, 48, 58, 49, 51, 58, 50, 50, 32, 71, 77, 84,
      192, 90, 4, 103, 122, 105, 112, 119, 56, 102, 111, 111, 61, 65, 83,
      68, 74, 75, 72, 81, 75, 66, 90, 88, 79, 81, 87, 69, 79, 80, 73, 85,
      65, 88, 81, 87, 69, 79, 73, 85, 59, 32, 109, 97, 120, 45, 97, 103,
      101, 61, 51, 54, 48, 48, 59, 32, 118, 101, 114, 115, 105, 111, 110,
      61, 49>>
RFCBlocks == {RFC_C3_1, RFC_C3_2, RFC_C3_3, RFC_C5_1, RFC_C5_2, RFC_C5_3}

\* Decoder::new(256)
InitRFC ==
    /\ table = Table_new(256)
    /\ max_size_update = None
    /\ pc = "idle"
    /\ src = <<>>
    /\ pos = 0
    /\ can_resize = TRUE
    /\ emitted = <<>>
    /\ result = "none"
    /\ at_call = NoFields
    /\ reps = <<>>
    /\ last = NoStep
    /\ queued = {}

DecodeBeginRFC ==
    \E b \in RFCBlocks :
        /\ pc = "idle"
        /\ pc' = "decode"
        /\ src' = b
        /\ pos' = 0
        /\ can_resize' = TRUE
        /\ emitted' = <<>>
        /\ result' = "none"
        /\ at_call' = Fields
        /\ reps' = <<>>
        /\ last' = Snapshot("decode", "", 0, <<>>)
        /\ UNCHANGED <<table, max_size_update, queued>>

NextRFC ==
    \/ DecodeBeginRFC
    \/ DecodeIteration
    \/ DecodeFinish
    \/ DecodeReturn

SpecRFC == InitRFC /\ [][NextRFC]_vars

-----------------------------------------------------------------------------
(* The primitives on their own.  src is the buffer a primitive is called    *)
(* on, last the call (its name and its prefix_size argument) and result     *)
(* the value it returns; the decoder is a new one with an empty table.      *)

\* the encoder's side of decode_int (RFC 7541 section 5.1): v with an N-bit
\* prefix, the bits of the first byte above the prefix taken from hi
RECURSIVE encode_varint(_)
encode_varint(r) ==
    IF r < 128 THEN <<r>> ELSE <<(r % 128) + 128>> \o encode_varint(r \div 128)

encode_int(v, n, hi) ==
    LET mask == Pow2(n) - 1
        high == (hi * Pow2(n)) % 256
    IN  IF v < mask THEN <<high + v>>
        ELSE <<high + mask>> \o encode_varint(v - mask)

MaxTrail == 1       \* bytes that follow an encoded integer in its buffer

PrefixSizes == 0 .. 9
HighBits == {0, 255}

\* values around the prefix masks and around the 7-bit groups, below 2^28
IntValues ==
    {v \in {Pow2(k) - 1 : k \in 0 .. 28} \cup {Pow2(k) : k \in 0 .. 28}
           \cup {Pow2(k) - 1 + Pow2(j) : k \in 1 .. 8, j \in {7, 14, 21}}
           \cup {Pow2(k) - 2 + Pow2(j) : k \in 1 .. 8, j \in {7, 14, 21}} :
        v < Pow2(28)}

Encodings == {encode_int(v, n, hi) : v \in IntValues, n \in 1 .. 8, hi \in HighBits}

Trails == UNION {[1 .. k -> {255}] : k \in 0 .. MaxTrail}

\* a full prefix followed by continuation bytes up to and past the limit
Overlong ==
    {<<high + Pow2(n) - 1>> \o tail :
        high \in {0}, n \in 1 .. 8,
        tail \in { <<255, 255, 255, 127>>, <<128, 128, 128, 128>>,
                   <<255, 255, 255, 255>>, <<255, 255, 255, 255, 0>>,
                   <<128, 128, 128, 128, 1>>, <<0>> }}

Prefixes(S) == UNION {{SubSeq(s, 1, k) : k \in 0 .. Len(s)} : s \in S}

Buffers ==
    {e \o t : e \in Encodings, t \in Trails}
        \cup Prefixes(Encodings \cup Overlong)
        \cup {<<b>> : b \in 0 .. 255}

InitPrim ==
    /\ src \in Buffers
    /\ pc = "call"
    /\ table = Table_new(0)
    /\ max_size_update = None
    /\ pos = 0
    /\ can_resize = TRUE
    /\ emitted = <<>>
    /\ result = "none"
    /\ at_call = NoFields
    /\ reps = <<>>
    /\ last = NoStep
    /\ queued = {}

\* Representation::load(peek_u8(buf)), as decode calls it on a buffer that
\* has a byte left
LoadCall ==
    /\ pc = "call"
    /\ src # <<>>
    /\ pc' = "done"
    /\ result' = Representation_load(src[1])
    /\ last' = Snapshot("load", "", 0, <<>>)
    /\ UNCHANGED <<table, max_size_update, src, pos, can_resize, emitted,
                   at_call, reps, queued>>

\* decode_int(buf, n) with the cursor at the start of the buffer
DecodeIntCall ==
    \E n \in PrefixSizes :
        /\ pc = "call"
        /\ pc' = "done"
        /\ result' = decode_int(src, 0, n)
        /\ last' = Snapshot("decode_int", "", n, <<>>)
        /\ UNCHANGED <<table, max_size_update, src, pos, can_resize, emitted,
                       at_call, reps, queued>>

\* the first iteration of decode's loop on the buffer, by a new decoder
IterationCall ==
    /\ pc = "call"
    /\ src # <<>>
    /\ \E o \in {decode_iteration(table, max_size_update, dbg,
                                  src, 0, TRUE, hn, hv) :
                     dbg \in BOOLEAN, hn \in HuffAnswers, hv \in HuffAnswers} :
           /\ pc' = "done"
           /\ result' = [tag |-> o.tag, err |-> o.err]
           /\ last' = Snapshot("iteration", Representation_load(src[1]), 0, o.entry)
    /\ UNCHANGED <<table, max_size_update, src, pos, can_resize, emitted,
                   at_call, reps, queued>>

NextPrim ==
    \/ LoadCall
    \/ DecodeIntCall
    \/ IterationCall

SpecPrim == InitPrim /\ [][NextPrim]_vars

-----------------------------------------------------------------------------
(* decode runs to its end once it is called: the loop is sequential code,   *)
(* so an iteration that can be taken is taken, and so is the return.  The   *)
(* decoder is the smaller one of Init, whose table the entry of 42 bytes    *)
(* does not fit; the blocks are the whole ones and the representations      *)
(* that are cut short.                                                      *)
InitFair == Init /\ table = Table_new(40)

DecodeBeginTruncated ==
    \E b \in Truncated :
        /\ pc = "idle"
        /\ pc' = "decode"
        /\ src' = b
        /\ pos' = 0
        /\ can_resize' = TRUE
        /\ emitted' = <<>>
        /\ result' = "none"
        /\ at_call' = Fields
        /\ reps' = <<>>
        /\ last' = Snapshot("decode", "", 0, <<>>)
        /\ UNCHANGED <<table, max_size_update, queued>>

NextFair ==
    \/ Next
    \/ DecodeBeginTruncated

SpecFair ==
    InitFair /\ [][NextFair]_vars
        /\ WF_vars(DecodeIteration) /\ WF_vars(DecodeFinish)
-----------------------------------------------------------------------------
(* Properties.  IterOf(rep): the last step was an iteration of decode on a   *)
(* representation rep; the state it started from is in last.                 *)
RECURSIVE SumLen(_)
SumLen(q) == IF q = <<>> THEN 0 ELSE Entry_len(q[1]) + SumLen(Tail(q))

SetMin(S) == CHOOSE m \in S : \A n \in S : m <= n

IterOf(rep) == last.op = "iteration" /\ last.rep = rep

\* the last iteration ended normally: the loop went on (and may have ended)
Continued == pc = "decode" \/ (pc = "returned" /\ result = "Ok")

\* the new maximum a SizeUpdate at the last iteration's cursor carries
NewMax == decode_int(src, last.pos, 5)
\* the index an Indexed representation at the last iteration's cursor carries
LastIndex == decode_int(src, last.pos, 7)

\* a representation other than SizeUpdate came before the last one
PriorNonUpdate == \E i \in 1 .. Len(reps) - 1 : reps[i] # "SizeUpdate"

\* the last iteration handed table.insert an entry bigger than max_size
OversizedInsert ==
    /\ IterOf("LiteralWithIndexing")
    /\ last.entry # <<>>
    /\ Entry_len(last.entry[1]) > last.table.max_size

\* the longest run of newest entries of q whose sizes sum to at most n
KeepNewest(q, n) ==
    LET k == CHOOSE j \in 0 .. Len(q) :
                 /\ SumLen(SubSeq(q, 1, j)) <= n
                 /\ j = Len(q) \/ SumLen(SubSeq(q, 1, j + 1)) > n
    IN  SubSeq(q, 1, k)

(* C1: in every reachable state the table's size field is the sum of the     *)
(* sizes of the entries it holds, and size <= max_size.                      *)
C1_SizeIsSumAndBounded ==
    /\ table.size = SumLen(table.entries)
    /\ table.size <= table.max_size

\* an insert into a table of two entries that had to evict
C1_Witness ==
    /\ IterOf("LiteralWithIndexing")
    /\ pc = "decode"
    /\ Len(last.table.entries) = 2
    /\ Len(table.entries) = 2
    /\ table.entries[1] = last.entry[1]

(* C2: insert(e) with size(e) > max_size empties the table, does not store   *)
(* e, and completes normally.                                                *)
C2_OversizedInsertClears ==
    OversizedInsert =>
        /\ Continued
        /\ table.entries = <<>>
        /\ table.size = 0

(* C3: when a LiteralWithIndexing entry is bigger than max_size, the entry   *)
(* is still passed to the sink and decode goes on to the next                *)
(* representation.                                                           *)
C3_OversizedEntryEmitted ==
    OversizedInsert =>
        /\ Continued
        /\ emitted # <<>>
        /\ emitted[Len(emitted)] = last.entry[1]

(* C4: a SizeUpdate after any other representation of the same block makes  *)
(* decode return InvalidMaxDynamicSize, whatever the pending maximum, and    *)
(* leaves max_size unchanged.                                                *)
C4_LateSizeUpdateRejected ==
    (IterOf("SizeUpdate") /\ PriorNonUpdate) =>
        /\ pc = "returned"
        /\ result = "InvalidMaxDynamicSize"
        /\ table.max_size = last.table.max_size

\* a late update that the pending maximum would have allowed at the head
C4_Witness ==
    /\ IterOf("SizeUpdate")
    /\ PriorNonUpdate
    /\ IsSome(last.max_size_update)
    /\ NewMax.tag = "Ok"
    /\ NewMax.val <= Unwrap(last.max_size_update)
    /\ NewMax.val # last.table.max_size
    /\ result = "InvalidMaxDynamicSize"

(* C5: a SizeUpdate at the head of a block makes decode return               *)
(* InvalidMaxDynamicSize when no pending maximum is queued, or when the new  *)
(* maximum is greater than the pending one; max_size and the entries are     *)
(* left unchanged.                                                           *)
C5_HeadSizeUpdateRejected ==
    (/\ IterOf("SizeUpdate")
     /\ Len(reps) = 1
     /\ \/ last.max_size_update = None
        \/ NewMax.tag = "Ok" /\ NewMax.val > Unwrap(last.max_size_update)) =>
        /\ pc = "returned"
        /\ result = "InvalidMaxDynamicSize"
        /\ table.max_size = last.table.max_size
        /\ table.entries = last.table.entries

\* an update above the pending maximum that would have evicted
C5_Witness ==
    /\ IterOf("SizeUpdate")
    /\ Len(reps) = 1
    /\ IsSome(last.max_size_update)
    /\ NewMax.tag = "Ok"
    /\ NewMax.val > Unwrap(last.max_size_update)
    /\ NewMax.val < last.table.size
    /\ result = "InvalidMaxDynamicSize"

(* C6: a SizeUpdate at the head of a block with new maximum n <= pending     *)
(* sets max_size to n, evicts the oldest entries until size <= n (n = 0      *)
(* empties the table), clears the pending maximum, and is in effect when the *)
(* next representation is decoded: an Indexed reference to an entry the      *)
(* update evicted yields InvalidTableIndex.                                  *)
C6_HeadSizeUpdateApplied ==
    /\ (/\ IterOf("SizeUpdate")
        /\ Len(reps) = 1
        /\ IsSome(last.max_size_update)
        /\ NewMax.tag = "Ok"
        /\ NewMax.val <= Unwrap(last.max_size_update)) =>
           /\ Continued
           /\ table.max_size = NewMax.val
           /\ table.entries = KeepNewest(last.table.entries, NewMax.val)
           /\ table.size = SumLen(table.entries)
           /\ NewMax.val = 0 => table.entries = <<>>
           /\ max_size_update = None
    /\ (/\ IterOf("Indexed")
        /\ reps = <<"SizeUpdate", "Indexed">>
        /\ LastIndex.tag = "Ok"
        /\ LastIndex.val >= 62
        /\ LastIndex.val <= 61 + Len(at_call.table.entries)
        /\ LastIndex.val > 61 + Len(last.table.entries)) =>
           /\ pc = "returned"
           /\ result = "InvalidTableIndex"
           /\ emitted = <<>>

\* an Indexed reference, right after the update, to an entry it evicted
C6_Witness ==
    /\ IterOf("Indexed")
    /\ reps = <<"SizeUpdate", "Indexed">>
    /\ LastIndex.tag = "Ok"
    /\ LastIndex.val = 62
    /\ at_call.table.entries # <<>>
    /\ last.table.entries = <<>>
    /\ last.table.max_size > 0
    /\ result = "InvalidTableIndex"

(* C7: after queue_size_update(c), a block that starts with two successive   *)
(* SizeUpdates, each <= c, is accepted: decode does not fail on the second   *)
(* and max_size ends equal to the second value.                              *)
C7_TwoSizeUpdatesAccepted ==
    (/\ IterOf("SizeUpdate")
     /\ reps = <<"SizeUpdate", "SizeUpdate">>
     /\ IsSome(at_call.max_size_update)
     /\ decode_int(src, 0, 5).val <= Unwrap(at_call.max_size_update)
     /\ NewMax.tag = "Ok"
     /\ NewMax.val <= Unwrap(at_call.max_size_update)) =>
        /\ Continued
        /\ table.max_size = NewMax.val

\* decode has accepted a SizeUpdate in this call: one that is not the
\* representation a failed call stopped at
AcceptedSizeUpdate ==
    \E i \in 1 .. Len(reps) :
        /\ reps[i] = "SizeUpdate"
        /\ i < Len(reps) \/ pc = "decode" \/ result = "Ok"

(* C8: the pending maximum is cleared only when decode accepts a size        *)
(* update; a call that accepts none (no size update in the block, or a       *)
(* rejected one) leaves it as it was before the call.                        *)
C8_PendingKeptUnlessAccepted ==
    (pc = "returned" /\ ~AcceptedSizeUpdate) =>
        max_size_update = at_call.max_size_update

(* C9: after queue_size_update(m1), ..., queue_size_update(mk) with no       *)
(* accepted size update in between, the pending maximum is min(m1, ..., mk). *)
C9_PendingIsMinimumQueued ==
    last.op = "queue_size_update" => max_size_update = Some(SetMin(queued))

(* C10: get(k) over the merged index space: 0 is InvalidTableIndex, 1..61    *)
(* the static entry k, 62..61+|dynamic| the (k-61)-th newest dynamic entry,  *)
(* anything above InvalidTableIndex; get changes nothing.  The newest entry  *)
(* is the one inserted last, and an insert moves every entry that stays one  *)
(* index up.                                                                 *)
C10_MergedIndexSpace ==
    /\ \A k \in 0 .. 61 + Len(table.entries) + 2 :
           LET r == Table_get(table, k)
           IN  IF k >= 1 /\ k <= 61
               THEN r.tag = "Ok" /\ r.val = StaticTable[k]
               ELSE IF k >= 62 /\ k <= 61 + Len(table.entries)
               THEN r.tag = "Ok" /\ r.val = table.entries[k - 61]
               ELSE r.tag = "Err" /\ r.err = "InvalidTableIndex"
    /\ (IterOf("LiteralWithIndexing") /\ Continued) =>
           /\ Table_get(table, 62).val = last.entry[1]
           /\ \A j \in 2 .. Len(table.entries) :
                  Table_get(table, 61 + j).val = Table_get(last.table, 60 + j).val
    /\ IterOf("Indexed") =>
           /\ table = last.table
           /\ Continued =>
                  emitted[Len(emitted)] = Table_get(table, LastIndex.val).val

\* an Indexed representation that fetched the older of two dynamic entries
C10_Witness ==
    /\ IterOf("Indexed")
    /\ pc = "decode"
    /\ LastIndex.val = 62
    /\ Len(table.entries) = 2
    /\ table.entries[1] # table.entries[2]
    /\ emitted[Len(emitted)] = table.entries[1]


-----------------------------------------------------------------------------
\* the last iteration handed table.insert an entry that fits max_size
FittingInsert ==
    /\ IterOf("LiteralWithIndexing")
    /\ last.entry # <<>>
    /\ Entry_len(last.entry[1]) <= last.table.max_size

(* C11: after insert(e) with size(e) <= max_size, get(62) is e, the entries  *)
(* behind it are the newest entries of the previous table in their previous  *)
(* order, and only as many of the oldest were removed as size + size(e) <=   *)
(* max_size needs.                                                           *)
C11_InsertKeepsNewestInOrder ==
    FittingInsert =>
        /\ Continued
        /\ Table_get(table, 62) = [tag |-> "Ok", val |-> last.entry[1]]
        /\ Tail(table.entries) =
               KeepNewest(last.table.entries,
                          last.table.max_size - Entry_len(last.entry[1]))
        /\ \A i \in 1 .. Len(table.entries) - 1 :
               Table_get(table, 62 + i) = Table_get(last.table, 61 + i)
        /\ table.max_size = last.table.max_size

\* an insert into a table of two entries that evicts the older one only
C11_Witness ==
    /\ FittingInsert
    /\ Len(last.table.entries) = 2
    /\ Tail(table.entries) = <<last.table.entries[1]>>

-----------------------------------------------------------------------------
\* the last iteration started on a representation that the end of the block
\* cuts short
EndsMidRepresentation ==
    /\ last.op = "iteration"
    /\ SubSeq(src, last.pos + 1, Len(src)) \in Truncated

(* C12: when the block ends in the middle of a representation (after the    *)
(* name index of a literal, after a name string, inside an integer, inside  *)
(* a string body) decode returns an error value, IntegerUnderflow or        *)
(* StringUnderflow (a SizeUpdate may be rejected before its integer is      *)
(* read), and never aborts.                                                 *)
C12_TruncatedBlockIsError ==
    EndsMidRepresentation =>
        /\ pc = "returned"
        /\ \/ result \in {"IntegerUnderflow", "StringUnderflow"}
           \/ last.rep = "SizeUpdate" /\ result = "InvalidMaxDynamicSize"

-----------------------------------------------------------------------------
(* C13: decoding an Indexed, LiteralWithoutIndexing or LiteralNeverIndexed  *)
(* representation leaves entries, size and max_size as they were, whether   *)
(* it succeeds or fails; a LiteralWithIndexing that decode gets through     *)
(* puts exactly the entry it emitted at the front of the table, and one     *)
(* that fails leaves the table as it was.                                   *)
C13_OnlyLiteralWithIndexingInserts ==
    /\ (IterOf("Indexed") \/ IterOf("LiteralWithoutIndexing")
            \/ IterOf("LiteralNeverIndexed")) =>
           table = last.table
    /\ (IterOf("LiteralWithIndexing") /\ Continued) =>
           /\ emitted # <<>>
           /\ table.entries # <<>>
           /\ table.entries[1] = emitted[Len(emitted)]
           /\ \E k \in 0 .. Len(last.table.entries) :
                  Tail(table.entries) = SubSeq(last.table.entries, 1, k)
           /\ table.max_size = last.table.max_size
    /\ (IterOf("LiteralWithIndexing") /\ pc = "returned" /\ result # "Ok") =>
           table = last.table

\* a literal without indexing decoded against a table that holds entries
C13_Witness ==
    /\ IterOf("LiteralWithoutIndexing")
    /\ Continued
    /\ Len(emitted) = 2
    /\ table.entries # <<>>

-----------------------------------------------------------------------------
\* how many of the representations q pass an entry to the sink
NonUpdates(q) == Cardinality({i \in 1 .. Len(q) : q[i] # "SizeUpdate"})

(* C14: the sink gets one entry per representation that is not a SizeUpdate *)
(* and none for a SizeUpdate, each appended behind those of the earlier     *)
(* representations; when decode returns an error the sink has exactly the   *)
(* entries of the representations before the failing one.                   *)
C14_EmittedInWireOrder ==
    /\ Continued => Len(emitted) = NonUpdates(reps)
    /\ (pc = "returned" /\ result # "Ok") =>
           /\ Len(emitted) = NonUpdates(Front(reps))
           /\ emitted = last.emitted
    /\ (last.op = "iteration" /\ Continued) =>
           /\ last.rep # "SizeUpdate" =>
                  emitted = Append(last.emitted, last.entry[1])
           /\ last.rep = "SizeUpdate" => emitted = last.emitted
           /\ last.rep = "Indexed" =>
                  emitted[Len(emitted)] = Table_get(last.table, LastIndex.val).val

\* a block whose second representation fails after the first was emitted
C14_Witness ==
    /\ pc = "returned"
    /\ result = "InvalidTableIndex"
    /\ Len(reps) = 2
    /\ Len(emitted) = 1

-----------------------------------------------------------------------------
(* The entries the RFC's examples put into the dynamic table *)
\* :authority: www.example.com  (size 57)
E_authority ==
    [tag |-> "Authority",
     name |->
        <<58, 97, 117, 116, 104, 111, 114, 105, 116, 121>>,
     value |->
        <<119, 119, 119, 46, 101, 120, 97, 109, 112, 108, 101, 46, 99, 111,
          109>>]

\* cache-control: no-cache  (size 53)
E_no_cache ==
    [tag |-> "Header",
     name |->
        <<99, 97, 99, 104, 101, 45, 99, 111, 110, 116, 114, 111, 108>>,
     value |->
        <<110, 111, 45, 99, 97, 99, 104, 101>>]

\* :status: 302  (size 42)
E_status_302 ==
    [tag |-> "Status",
     name |->
        <<58, 115, 116, 97, 116, 117, 115>>,
     value |->
        <<51, 48, 50>>]

\* cache-control: private  (size 52)
E_private ==
    [tag |-> "Header",
     name |->
        <<99, 97, 99, 104, 101, 45, 99, 111, 110, 116, 114, 111, 108>>,
     value |->
        <<112, 114, 105, 118, 97, 116, 101>>]

\* date: Mon, 21 Oct 2013 20:13:21 GMT  (size 65)
E_date_21 ==
    [tag |-> "Header",
     name |->
        <<100, 97, 116, 101>>,
     value |->
        <<77, 111, 110, 44, 32, 50, 49, 32, 79, 99, 116, 32, 50, 48, 49, 51,
          32, 50, 48, 58, 49, 51, 58, 50, 49, 32, 71, 77, 84>>]

\* location: https://www.example.com  (size 63)
E_location ==
    [tag |-> "Header",
     name |->
        <<108, 111, 99, 97, 116, 105, 111, 110>>,
     value |->
        <<104, 116, 116, 112, 115, 58, 47, 47, 119, 119, 119, 46, 101, 120,
          97, 109, 112, 108, 101, 46, 99, 111, 109>>]

\* :status: 307  (size 42)
E_status_307 ==
    [tag |-> "Status",
     name |->
        <<58, 115, 116, 97, 116, 117, 115>>,
     value |->
        <<51, 48, 55>>]

\* :status: 200  (size 42)
E_status_200 ==
    [tag |-> "Status",
     name |->
        <<58, 115, 116, 97, 116, 117, 115>>,
     value |->
        <<50, 48, 48>>]

\* date: Mon, 21 Oct 2013 20:13:22 GMT  (size 65)
E_date_22 ==
    [tag |-> "Header",
     name |->
        <<100, 97, 116, 101>>,
     value |->
        <<77, 111, 110, 44, 32, 50, 49, 32, 79, 99, 116, 32, 50, 48, 49, 51,
          32, 50, 48, 58, 49, 51, 58, 50, 50, 32, 71, 77, 84>>]

\* content-encoding: gzip  (size 52)
E_gzip ==
    [tag |-> "Header",
     name |->
        <<99, 111, 110, 116, 101, 110, 116, 45, 101, 110, 99, 111, 100, 105,
          110, 103>>,
     value |->
        <<103, 122, 105, 112>>]

\* set-cookie: foo=ASDJKHQKBZXOQWEOPIUAXQWEOIU; max-age=3600; version=1  (size 98)
E_set_cookie ==
    [tag |-> "Header",
     name |->
        <<115, 101, 116, 45, 99, 111, 111, 107, 105, 101>>,
     value |->
        <<102, 111, 111, 61, 65, 83, 68, 74, 75, 72, 81, 75, 66, 90, 88, 79,
          81, 87, 69, 79, 80, 73, 85, 65, 88, 81, 87, 69, 79, 73, 85, 59,
          32, 109, 97, 120, 45, 97, 103, 101, 61, 51, 54, 48, 48, 59, 32,
          118, 101, 114, 115, 105, 111, 110, 61, 49>>]
\* the table of a decoder created with max_size 256 that holds the entries q
TableOf(q) == [entries |-> q, size |-> SumLen(q), max_size |-> 256]

\* decode has returned from a call on the block b that found the table t
Returned(b, t) == pc = "returned" /\ src = b /\ at_call.table = t

C3_Table1 == TableOf(<<E_authority>>)
C3_Table2 == TableOf(<<E_no_cache, E_authority>>)

(* C15: the dynamic table persists across decode calls.  An Indexed         *)
(* reference to index 62 that no insert of the same block precedes yields   *)
(* the newest entry the earlier blocks left; the first block of RFC C.3     *)
(* leaves a table of size 57, and the second block, decoded next, gets the  *)
(* :authority entry of the first from index 62 and leaves size 110.         *)
C15_TablePersistsAcrossBlocks ==
    /\ (/\ IterOf("Indexed")
        /\ LastIndex = Ok(62, last.pos + 1)
        /\ \A i \in 1 .. Len(reps) : reps[i] # "LiteralWithIndexing"
        /\ at_call.table.entries # <<>>) =>
           /\ Continued
           /\ emitted[Len(emitted)] = at_call.table.entries[1]
    /\ Returned(RFC_C3_1, Table_new(256)) =>
           /\ result = "Ok"
           /\ table = C3_Table1
           /\ table.size = 57
    /\ Returned(RFC_C3_2, C3_Table1) =>
           /\ result = "Ok"
           /\ Len(emitted) = 5
           /\ emitted[4] = E_authority
           /\ emitted[5] = E_no_cache
           /\ table = C3_Table2
           /\ table.size = 110

\* the second request of C.3 decoded after the first
C15_Witness == Returned(RFC_C3_2, C3_Table1) /\ result = "Ok"

C5_Table1 == TableOf(<<E_location, E_date_21, E_private, E_status_302>>)
C5_Table2 == TableOf(<<E_status_307, E_location, E_date_21, E_private>>)
C5_Table3 == TableOf(<<E_set_cookie, E_gzip, E_date_22>>)

\* the three responses of C.5 leave the tables the RFC lists
C5_FirstTwoBlocks ==
    /\ Returned(RFC_C5_1, Table_new(256)) => result = "Ok" /\ table = C5_Table1
    /\ Returned(RFC_C5_2, C5_Table1) => result = "Ok" /\ table = C5_Table2

(* C16, as the code has it: after the third response of RFC C.5, decoded by *)
(* a decoder created with max_size 256 after the first two, the dynamic     *)
(* table holds exactly set-cookie, content-encoding: gzip and               *)
(* date: Mon, 21 Oct 2013 20:13:22 GMT, newest first, with size 215; every  *)
(* earlier entry has been evicted.  :status 200, cache-control: private and *)
(* location are among the six entries the block emits.                      *)
C16_ResponseSequenceTable ==
    /\ C5_FirstTwoBlocks
    /\ Returned(RFC_C5_3, C5_Table2) =>
           /\ result = "Ok"
           /\ table = C5_Table3
           /\ table.size = 215
           /\ emitted = <<E_status_200, E_private, E_date_22, E_location,
                          E_gzip, E_set_cookie>>

\* the third response decoded after the first two
C16_Witness == Returned(RFC_C5_3, C5_Table2) /\ result = "Ok"

(* C16 as stated: after the third block the dynamic table holds exactly     *)
(* :status 200, cache-control: private, date: Mon, 21 Oct 2013 20:13:22 GMT *)
(* and location: https://www.example.com, with size 215.                    *)
C16_AsStated ==
    Returned(RFC_C5_3, C5_Table2) =>
        /\ table.size = 215
        /\ Len(table.entries) = 4
        /\ {table.entries[i] : i \in 1 .. Len(table.entries)} =
               {E_status_200, E_private, E_date_22, E_location}

-----------------------------------------------------------------------------
\* the last step was a call of the primitive op that has returned
Called(op) == pc = "done" /\ last.op = op

\* the spec's ordered tests on the first byte, by the value of its high bits
SpecClass(B) ==
    IF B \div 128 = 1 THEN "Indexed"
    ELSE IF B \div 64 = 1 THEN "LiteralWithIndexing"
    ELSE IF B \div 16 = 0 THEN "LiteralWithoutIndexing"
    ELSE IF B \div 16 = 1 THEN "LiteralNeverIndexed"
    ELSE IF B \div 32 = 1 THEN "SizeUpdate"
    ELSE "InvalidRepresentation"

(* C17: Representation::load gives every byte B the class the spec's        *)
(* ordered tests give it: B & 0x80 # 0 Indexed, else B & 0xC0 = 0x40        *)
(* LiteralWithIndexing, else B & 0xF0 = 0 LiteralWithoutIndexing, else      *)
(* B & 0xF0 = 0x10 LiteralNeverIndexed, else B & 0xE0 = 0x20 SizeUpdate.    *)
C17_LoadClassifiesAsSpec ==
    Called("load") => result = SpecClass(src[1])

\* a byte with both high bits set, which only the order of the tests decides
C17_Witness == Called("load") /\ src = <<255>> /\ result = "Indexed"

-----------------------------------------------------------------------------
\* the value the continuation bytes s[i .. k] add to the prefix
RECURSIVE VarintValue(_, _, _)
VarintValue(s, i, k) ==
    IF i > k THEN 0 ELSE (s[i] % 128) + 128 * VarintValue(s, i + 1, k)

\* the positions, among the first four continuation bytes, of those with
\* the high bit clear
Terminators(s) == {k \in 2 .. Min(Len(s), 5) : s[k] < 128}

(* C18: decode_int reads at most 5 bytes.  With the prefix bits all set it  *)
(* returns the value ending at the first continuation byte whose high bit   *)
(* is clear when that is one of the first four, so an encoding of exactly   *)
(* 5 bytes decodes; IntegerOverflow when four continuation bytes all have   *)
(* the high bit set; IntegerUnderflow when the buffer is empty or ends      *)
(* before that; a prefix equal to the mask followed by 0 is the mask.       *)
(* Every value returned is below 2^32.                                      *)
C18_DecodeIntFiveBytes ==
    (Called("decode_int") /\ last.arg \in 1 .. 8) =>
        LET mask == 2 ^ last.arg - 1
            ends == Terminators(src)
            k    == SetMin(ends)
        IN  /\ src = <<>> => result = Err("IntegerUnderflow")
            /\ (src # <<>> /\ src[1] % (mask + 1) < mask) =>
                   result = Ok(src[1] % (mask + 1), 1)
            /\ (src # <<>> /\ src[1] % (mask + 1) = mask) =>
                   /\ ends # {} =>
                          result = Ok(mask + VarintValue(src, 2, k), k)
                   /\ (ends = {} /\ Len(src) >= 5) =>
                          result = Err("IntegerOverflow")
                   /\ (ends = {} /\ Len(src) < 5) =>
                          result = Err("IntegerUnderflow")
                   /\ SubSeq(src, 2, Len(src)) = <<0>> => result = Ok(mask, 2)
            /\ result.tag = "Ok" =>
                   /\ result.pos <= 5
                   /\ result.val \div 65536 < 65536

\* the largest integer of 5 bytes: a full prefix, three full continuation
\* bytes and a last one with the high bit clear
C18_Witness ==
    /\ Called("decode_int")
    /\ last.arg = 7
    /\ src = <<127, 255, 255, 255, 127>>
    /\ result = Ok(127 + (2 ^ 28 - 1), 5)

-----------------------------------------------------------------------------
(* C20: for every v below 2^28 and every prefix width N in 1 .. 8,          *)
(* decode_int with prefix N on a buffer that starts with the RFC 7541       *)
(* section 5.1 encoding of v returns v and leaves the cursor just behind    *)
(* that encoding.                                                           *)
C20_DecodeIntRoundTrip ==
    (Called("decode_int") /\ last.arg \in 1 .. 8) =>
        \A v \in IntValues, hi \in HighBits :
            LET e == encode_int(v, last.arg, hi)
            IN  (v < 2 ^ 28 /\ Len(e) <= Len(src) /\ SubSeq(src, 1, Len(e)) = e) =>
                    result = Ok(v, Len(e))

\* 2^28 - 1 with a 5-bit prefix and a byte behind the encoding
C20_Witness ==
    /\ Called("decode_int")
    /\ last.arg = 5
    /\ src = encode_int(2 ^ 28 - 1, 5, 255) \o <<255>>
    /\ Len(src) = 6
    /\ result = Ok(2 ^ 28 - 1, 5)

-----------------------------------------------------------------------------
\* the last iteration was on a literal representation
IterOfLiteral ==
    /\ last.op = "iteration"
    /\ last.rep \in {"LiteralWithIndexing", "LiteralWithoutIndexing",
                     "LiteralNeverIndexed"}

\* the name index of the literal the last iteration started on
NameIndex ==
    decode_int(src, last.pos, IF last.rep = "LiteralWithIndexing" THEN 6 ELSE 4)

\* the entry at merged index j of the table t, when there is one
HasIndex(t, j) == 1 <= j /\ j <= 61 + Len(t.entries)
MergedAt(t, j) == IF j <= 61 THEN StaticTable[j] ELSE t.entries[j - 61]

\* the string that starts at cursor p of the block: plain if its length byte
\* is below 128, else whatever the Huffman decoder makes of it
IsPlain(p) == src[p + 1] < 128
PlainString(p) == SubSeq(src, p + 2, p + 1 + src[p + 1])
StringEnd(p) == p + 1 + (src[p + 1] % 128)
IsStringAt(str, p) ==
    IF IsPlain(p) THEN str = PlainString(p) ELSE Some(str) \in HuffAnswers

(* C19: a literal with name index j > 0 decodes to an entry with the name   *)
(* and variant of the entry at merged index j and the value of the string   *)
(* that follows; when j is not a valid merged index decode returns          *)
(* InvalidTableIndex and the table is as it was, so a LiteralWithIndexing   *)
(* has inserted nothing.  With j = 0 the first string is the name and the   *)
(* second the value.                                                        *)
C19_LiteralNameFromIndex ==
    (IterOfLiteral /\ NameIndex.tag = "Ok") =>
        LET j == NameIndex.val
            p == NameIndex.pos
        IN  /\ (j > 0 /\ ~HasIndex(last.table, j)) =>
                   /\ pc = "returned"
                   /\ result = "InvalidTableIndex"
                   /\ table = last.table
                   /\ emitted = last.emitted
            /\ (j > 0 /\ last.entry # <<>>) =>
                   /\ HasIndex(last.table, j)
                   /\ last.entry[1].name = MergedAt(last.table, j).name
                   /\ last.entry[1].tag = MergedAt(last.table, j).tag
                   /\ IsStringAt(last.entry[1].value, p)
            /\ (j = 0 /\ last.entry # <<>>) =>
                   /\ last.entry[1].tag = "Header"
                   /\ IsStringAt(last.entry[1].name, p)
                   /\ IsStringAt(last.entry[1].value, StringEnd(p))
            /\ (Continued /\ last.entry # <<>>) =>
                   emitted = Append(last.emitted, last.entry[1])

\* a LiteralWithIndexing that takes its name from the newest dynamic entry
C19_Witness ==
    /\ IterOf("LiteralWithIndexing")
    /\ NameIndex = Ok(62, last.pos + 1)
    /\ Continued
    /\ last.entry[1].name = last.table.entries[1].name
    /\ last.entry[1].value = <<99>>

\* a LiteralWithIndexing whose name index is past the end of the index space
C19_WitnessInvalid ==
    /\ IterOf("LiteralWithIndexing")
    /\ NameIndex.tag = "Ok"
    /\ NameIndex.val = 73
    /\ last.table.entries # <<>>

-----------------------------------------------------------------------------
\* the cursor never leaves the block; an iteration that did not return an
\* error has moved it forward; Ok is returned with the cursor at the end
CursorAdvances ==
    /\ pos <= Len(src)
    /\ last.op = "iteration" =>
           \/ pc = "returned" /\ result # "Ok"
           \/ pos >= last.pos + 1
    /\ (pc = "returned" /\ result = "Ok") => pos = Len(src)

\* decode has left its loop: it has its return value, or it has aborted
Ended == pc \in {"returned", "panic"}

(* C21: decode terminates on every finite input.  Each iteration of the     *)
(* loop returns an error or advances the cursor by at least one byte, Ok is *)
(* returned only with the cursor at the end of the input, and every call    *)
(* leaves the loop.                                                         *)
C21_DecodeTerminates ==
    /\ []CursorAdvances
    /\ (pc = "decode") ~> Ended

\* a block of two representations decoded to its end
C21_Witness ==
    /\ pc = "returned"
    /\ result = "Ok"
    /\ Len(reps) = 2
    /\ pos = Len(src)
    /\ last.pos > 0

-----------------------------------------------------------------------------
Representations ==
    {"Indexed", "LiteralWithIndexing", "LiteralWithoutIndexing",
     "LiteralNeverIndexed", "SizeUpdate"}

(* C22: Representation::load returns one of the five representations for   *)
(* every byte value, never InvalidRepresentation, and no iteration of       *)
(* decode, whatever the first byte of its representation, ends with         *)
(* InvalidRepresentation.                                                   *)
C22_LoadIsTotal ==
    /\ Called("load") => result \in Representations
    /\ Called("iteration") =>
           /\ last.rep \in Representations
           /\ ~(result.tag = "Err" /\ result.err = "InvalidRepresentation")

\* the byte that passes the first four tests and is caught by the last one
C22_Witness ==
    /\ Called("iteration")
    /\ src = <<32>>
    /\ last.rep = "SizeUpdate"
    /\ result = [tag |-> "Err", err |-> "InvalidMaxDynamicSize"]
====
